---- MODULE Spec2Model ----
(***************************************************************************)
(* Model of the fetch-geotargeting-tool of ernestocullari/mcp-server       *)
(* (src/tools/fetch-geotargeting-tool.js).                                 *)
(*                                                                         *)
(* A JavaScript string is a sequence of one-character strings, so that     *)
(* toLowerCase, includes, split and trim are computed, not assumed.        *)
(* An optional argument is a record [set, text]; set = FALSE is undefined. *)
(***************************************************************************)
EXTENDS Integers, Sequences, FiniteSets, TLC

VARIABLES sheetIdSet, callers, pc, query, location, demographic, rows,
          searched, scoredResults, result, fetches, caught,
          httpPc, httpInput, runs, replies

\* the state of the calls of the tool
tool == <<sheetIdSet, callers, pc, query, location, demographic, rows,
          searched, scoredResults, result, fetches, caught>>

\* the state of the requests of POST /agent
http == <<httpPc, httpInput, runs, replies>>

vars == <<tool, http>>

(***************************************************************************)
(* Bounds                                                                  *)
(***************************************************************************)
\* largest number of data rows in a fetched sheet
MaxRows == 6

\* the call slots of the tool
AllCalls == {1, 2}

(***************************************************************************)
(* Strings                                                                 *)
(***************************************************************************)
UpperChars == <<"A","B","C","D","E","F","G","H","I","J","K","L","M",
                "N","O","P","Q","R","S","T","U","V","W","X","Y","Z">>

LowerChars == <<"a","b","c","d","e","f","g","h","i","j","k","l","m",
                "n","o","p","q","r","s","t","u","v","w","x","y","z">>

\* the lower-case letter of each upper-case letter
UpperToLower ==
    [ch \in {UpperChars[i] : i \in 1..26} |->
        LowerChars[CHOOSE i \in 1..26 : UpperChars[i] = ch]]

\* String.prototype.toLowerCase, one character
LowerChar(ch) == IF ch \in DOMAIN UpperToLower THEN UpperToLower[ch] ELSE ch

\* String.prototype.toLowerCase
ToLowerCase(s) == [i \in 1..Len(s) |-> LowerChar(s[i])]

\* String.prototype.includes: t occurs in s as a contiguous substring
Includes(s, t) ==
    \E i \in 0..(Len(s) - Len(t)) : \A j \in 1..Len(t) : s[i + j] = t[j]

\* String.prototype.split(' '): the pieces between single spaces, empty
\* pieces included
RECURSIVE Split(_)
Split(s) ==
    IF \A i \in 1..Len(s) : s[i] # " "
    THEN <<s>>
    ELSE LET k == CHOOSE i \in 1..Len(s) :
                      s[i] = " " /\ \A j \in 1..(i - 1) : s[j] # " "
         IN  <<SubSeq(s, 1, k - 1)>> \o Split(SubSeq(s, k + 1, Len(s)))

\* value.toString().trim() !== ''
NotBlank(s) == \E i \in 1..Len(s) : s[i] # " "

\* an argument that was not passed (undefined)
Undefined == [set |-> FALSE, text |-> <<>>]

Arg(s) == [set |-> TRUE, text |-> s]

\* JavaScript truthiness of an optional string argument
Truthy(a) == a.set /\ a.text # <<>>

(***************************************************************************)
(* Constants of the tool                                                   *)
(***************************************************************************)
\* score += 5 for a query term found in a cell
TermWeight == 5

\* score += 8 for a location term found in a cell
LocationWeight == 8

\* score += 8 for a demographic term found in a cell
DemographicWeight == 8

\* score += 12 for the whole query found in a cell
ExactWeight == 12

\* score += 3 for a non-empty cell under a geographic or demographic header
BoostWeight == 3

\* .slice(0, 5)
TopN == 5

\* term.length > 2
MinTermLength == 2

geoKeywords ==
    { <<"c","i","t","y">>, <<"s","t","a","t","e">>, <<"z","i","p">>,
      <<"c","o","u","n","t","y">>, <<"r","e","g","i","o","n">>,
      <<"a","r","e","a">>, <<"d","i","s","t","r","i","c","t">> }

demoKeywords ==
    { <<"a","g","e">>, <<"i","n","c","o","m","e">>,
      <<"h","o","u","s","e","h","o","l","d">>,
      <<"p","o","p","u","l","a","t","i","o","n">>,
      <<"g","e","n","d","e","r">>,
      <<"e","d","u","c","a","t","i","o","n">> }

(***************************************************************************)
(* Scoring of one row (the body of data.forEach)                           *)
(***************************************************************************)
\* query.toLowerCase().split(' ').filter(term => term.length > 2)
searchTerms(q) ==
    SelectSeq(Split(ToLowerCase(q)), LAMBDA term : Len(term) > MinTermLength)

\* location ? location.toLowerCase().split(' ') : []
locationTerms(l) == IF Truthy(l) THEN Split(ToLowerCase(l.text)) ELSE <<>>

\* demographic ? demographic.toLowerCase().split(' ') : []
demographicTerms(d) == IF Truthy(d) THEN Split(ToLowerCase(d.text)) ELSE <<>>

\* row[i] || ''
Cell(row, i) == IF i <= Len(row) THEN row[i] ELSE <<>>

\* the cell as it is, not lower-cased
cellValue_CaseSensitive(row, colIndex) == Cell(row, colIndex)

\* (row[colIndex] || '').toString().toLowerCase()
cellValue(row, colIndex) == ToLowerCase(Cell(row, colIndex))

\* the terms of a list that occur in the cell, in the order of the list
Found(cell, terms) == SelectSeq(terms, LAMBDA t : Includes(cell, t))

\* the matchDetails entries pushed for one kind of term in one cell
Details(kind, found, header) ==
    [k \in 1..Len(found) |-> [kind |-> kind, term |-> found[k], header |-> header]]

\* the matchDetails entries pushed while one cell is searched; st, lt and
\* dt are searchTerms, locationTerms and demographicTerms, ql is
\* query.toLowerCase()
cellDetails(header, cell, st, lt, dt, ql) ==
    Details("query", Found(cell, st), header)
    \o Details("location", Found(cell, lt), header)
    \o Details("demographic", Found(cell, dt), header)
    \o (IF Includes(cell, ql)
        THEN <<[kind |-> "exact", term |-> ql, header |-> header]>>
        ELSE <<>>)

\* what one cell adds to the score of its row while it is searched
cellScore(cell, st, lt, dt, ql) ==
    TermWeight * Len(Found(cell, st))
    + LocationWeight * Len(Found(cell, lt))
    + DemographicWeight * Len(Found(cell, dt))
    + (IF Includes(cell, ql) THEN ExactWeight ELSE 0)

\* what one cell adds to the score of its row in the keyword boost
boostScore(header, cell) ==
    LET headerLower == ToLowerCase(header)
    IN  (IF (\E keyword \in geoKeywords : Includes(headerLower, keyword))
            /\ cell # <<>>
         THEN BoostWeight ELSE 0)
        + (IF (\E keyword \in demoKeywords : Includes(headerLower, keyword))
              /\ cell # <<>>
           THEN BoostWeight ELSE 0)

RECURSIVE SumTo(_, _)
SumTo(f, n) == IF n = 0 THEN 0 ELSE SumTo(f, n - 1) + f[n]

RECURSIVE ConcatTo(_, _)
ConcatTo(f, n) == IF n = 0 THEN <<>> ELSE ConcatTo(f, n - 1) \o f[n]

\* the score of a row after both headers.forEach loops
rowScore(headers, row, st, lt, dt, ql) ==
    SumTo([i \in 1..Len(headers) |->
              cellScore(cellValue(row, i), st, lt, dt, ql)
              + boostScore(headers[i], cellValue(row, i))],
          Len(headers))

\* the matchDetails of a row
rowDetails(headers, row, st, lt, dt, ql) ==
    ConcatTo([i \in 1..Len(headers) |->
                 cellDetails(headers[i], cellValue(row, i), st, lt, dt, ql)],
             Len(headers))

\* rowObject[header] = row[i] || '': the entries of the object in the order
\* Object.entries lists them, a repeated header keeping its first place and
\* its last value
rowObject(headers, row) ==
    LET firsts == SelectSeq([i \in 1..Len(headers) |-> i],
                     LAMBDA i : \A j \in 1..(i - 1) : headers[j] # headers[i])
        last(h) == CHOOSE i \in 1..Len(headers) :
                     headers[i] = h /\ \A j \in (i + 1)..Len(headers) : headers[j] # h
    IN  [k \in 1..Len(firsts) |->
            [key |-> headers[firsts[k]],
             value |-> Cell(row, last(headers[firsts[k]]))]]

\* if (score > 0)
Keep(score) == score > 0

\* the scoredResults array after data.forEach
scoredRows(rws, q, l, d) ==
    LET headers == rws[1]
        data == Tail(rws)
        ql == ToLowerCase(q)
        st == searchTerms(q)
        lt == locationTerms(l)
        dt == demographicTerms(d)
        all == [i \in 1..Len(data) |->
                   [data |-> rowObject(headers, data[i]),
                    score |-> rowScore(headers, data[i], st, lt, dt, ql),
                    matchDetails |-> rowDetails(headers, data[i], st, lt, dt, ql),
                    rowIndex |-> i + 1]]
    IN  SelectSeq(all, LAMBDA r : Keep(r.score))

(***************************************************************************)
(* Ranking and the returned objects                                        *)
(***************************************************************************)
\* a sort that puts an element before the earlier elements of equal score
RECURSIVE sortByScore_Unstable(_)
sortByScore_Unstable(s) ==
    IF Len(s) = 0 THEN <<>>
    ELSE LET rest == sortByScore_Unstable(SubSeq(s, 1, Len(s) - 1))
             x == s[Len(s)]
             k == Cardinality({i \in 1..Len(rest) : rest[i].score > x.score})
         IN  SubSeq(rest, 1, k) \o <<x>> \o SubSeq(rest, k + 1, Len(rest))

\* scoredResults.sort((a, b) => b.score - a.score): Array.prototype.sort is
\* stable, so elements of equal score keep their order
RECURSIVE sortByScore(_)
sortByScore(s) ==
    IF Len(s) = 0 THEN <<>>
    ELSE LET rest == sortByScore(SubSeq(s, 1, Len(s) - 1))
             x == s[Len(s)]
             k == Cardinality({i \in 1..Len(rest) : rest[i].score >= x.score})
         IN  SubSeq(rest, 1, k) \o <<x>> \o SubSeq(rest, k + 1, Len(rest))

\* .slice(0, 5)
topResults(sorted) ==
    SubSeq(sorted, 1, IF Len(sorted) < TopN THEN Len(sorted) ELSE TopN)

\* the value of result before the call has returned
NoResult == [pending |-> TRUE]

NoDataResult ==
    [success |-> FALSE,
     message |-> [text |-> "No data found in the Google Sheet", arg |-> <<>>]]

\* the no-match object reported as a failure
NoMatchResult_Failure(q) ==
    [success |-> FALSE,
     message |-> [text |-> "No relevant data found for", arg |-> q],
     suggestions |-> <<"Try broader search terms",
                       "Check spelling of location names",
                       "Use demographic categories">>]

NoMatchResult(q) ==
    [success |-> TRUE,
     message |-> [text |-> "No relevant data found for", arg |-> q],
     suggestions |-> <<"Try broader search terms",
                       "Check spelling of location names",
                       "Use demographic categories">>]

\* a catch block that drops the message of the error
ErrorResult_Generic(msg) ==
    [success |-> FALSE,
     message |-> [text |-> "Error accessing Google Sheet:", arg |-> <<>>],
     suggestions |-> <<"Check Google Sheets API credentials",
                       "Verify GOOGLE_SHEET_ID environment variable",
                       "Ensure sheet permissions are set correctly">>]

\* the object returned by the catch block
ErrorResult(msg) ==
    [success |-> FALSE,
     message |-> [text |-> "Error accessing Google Sheet:", arg |-> <<msg>>],
     suggestions |-> <<"Check Google Sheets API credentials",
                       "Verify GOOGLE_SHEET_ID environment variable",
                       "Ensure sheet permissions are set correctly">>]

\* one element of formattedResults: the non-blank fields of the row, at
\* most 8 of them, under the heading "Result n (Confidence Score: s)"
formatResult(r, index) ==
    LET fields == SelectSeq(r.data, LAMBDA e : e.value # <<>> /\ NotBlank(e.value))
    IN  [index |-> index,
         score |-> r.score,
         fields |-> SubSeq(fields, 1, IF Len(fields) < 8 THEN Len(fields) ELSE 8)]

MatchResult(sorted, q, l, d) ==
    LET top == topResults(sorted)
    IN  [success |-> TRUE,
         summary |-> [found |-> Len(top),
                      query |-> q,
                      location |-> IF Truthy(l) THEN l.text ELSE <<>>,
                      demographic |-> IF Truthy(d) THEN d.text ELSE <<>>,
                      topScore |-> top[1].score],
         results |-> [i \in 1..Len(top) |-> formatResult(top[i], i)],
         totalMatches |-> Len(sorted),
         query |-> q,
         rawData |-> top]

\* no error has been caught
NoError == ""

\* thrown by query.toLowerCase() when query is undefined
QueryTypeError == "Cannot read properties of undefined (reading 'toLowerCase')"

\* thrown by header.toLowerCase() when a header is not a string
HeaderTypeError == "header.toLowerCase is not a function"

\* thrown when GOOGLE_SHEET_ID is not set
SheetIdError == "GOOGLE_SHEET_ID environment variable not set"

\* a header cell that holds a number instead of a string
NotAString == <<"#number">>

\* the cells read by the search loop: every header column of every data row
cellsRead(rws) ==
    {<<i + 1, colIndex>> : i \in 1..(Len(rws) - 1), colIndex \in 1..Len(rws[1])}

\* execute without its try block: a TypeError rejects the promise and no
\* object is returned
respond_Uncaught(resp, q, l, d) ==
    IF ~resp.set \/ Len(resp.list) = 0
    THEN [result |-> NoDataResult, scored |-> <<>>, read |-> {},
          caught |-> NoError]
    ELSE IF ~q.set
    THEN [result |-> NoResult,
          scored |-> <<>>, read |-> {}, caught |-> QueryTypeError]
    ELSE IF Len(resp.list) >= 2 /\ \E i \in 1..Len(resp.list[1]) :
                                      resp.list[1][i] = NotAString
    THEN [result |-> NoResult,
          scored |-> <<>>,
          read |-> {<<2, colIndex>> : colIndex \in 1..Len(resp.list[1])},
          caught |-> HeaderTypeError]
    ELSE LET sorted == sortByScore(scoredRows(resp.list, q.text, l, d))
         IN  [result |-> IF Len(topResults(sorted)) = 0
                         THEN NoMatchResult(q.text)
                         ELSE MatchResult(sorted, q.text, l, d),
              scored |-> sorted,
              read |-> cellsRead(resp.list),
              caught |-> NoError]

\* execute from the resolution of the fetch to its return: the returned
\* object, the scoredResults array and the cells read on the way
respond(resp, q, l, d) ==
    IF ~resp.set \/ Len(resp.list) = 0
    THEN [result |-> NoDataResult, scored |-> <<>>, read |-> {},
          caught |-> NoError]
    ELSE IF ~q.set
    THEN [result |-> ErrorResult(QueryTypeError),
          scored |-> <<>>, read |-> {}, caught |-> QueryTypeError]
    ELSE IF Len(resp.list) >= 2 /\ \E i \in 1..Len(resp.list[1]) :
                                      resp.list[1][i] = NotAString
    THEN [result |-> ErrorResult(HeaderTypeError),
          scored |-> <<>>,
          read |-> {<<2, colIndex>> : colIndex \in 1..Len(resp.list[1])},
          caught |-> HeaderTypeError]
    ELSE LET sorted == sortByScore(scoredRows(resp.list, q.text, l, d))
         IN  [result |-> IF Len(topResults(sorted)) = 0
                         THEN NoMatchResult(q.text)
                         ELSE MatchResult(sorted, q.text, l, d),
              scored |-> sorted,
              read |-> cellsRead(resp.list),
              caught |-> NoError]

(***************************************************************************)
(* Inputs                                                                  *)
(***************************************************************************)
Category == <<"C","a","t","e","g","o","r","y">>

Grouping == <<"G","r","o","u","p","i","n","g">>

Demographic == <<"D","e","m","o","g","r","a","p","h","i","c">>

Description == <<"D","e","s","c","r","i","p","t","i","o","n">>

Age == <<"A","g","e">>

\* header rows: the four required columns, and a sheet whose demographic
\* column is named Age
HeaderRows ==
    { <<Category, Grouping, Demographic, Description>>,
      <<Category, Grouping, Age, Description>> }

\* data rows, as cells Category, Grouping, Demographic, Description
RowPool ==
    { << <<"A","u","t","o">>, <<"C","a","r","s">>, <<"O","l","d">>,
         <<"c","a","r"," ","f","a","n"," ","n","y">> >>,
      << <<"A","u","t","o">>, <<"O","w","n","e","r">>, <<"Y","o","u","n","g">>,
         <<"F","a","n"," ","c","l","u","b">> >>,
      << <<"F","o","o","d">>, <<"X","y">>, <<>>, <<"C","A","R">> >> }

\* the data rows of a sheet: up to MaxRows rows of the pool, in any order
DataRows == UNION {[1..n -> RowPool] : n \in 0..MaxRows}

\* response.data.values: absent, an empty array, or a header row and data
Responses ==
    { [resolved |-> TRUE, set |-> FALSE, list |-> <<>>],
      [resolved |-> TRUE, set |-> TRUE, list |-> <<>>] }
    \cup { [resolved |-> TRUE, set |-> TRUE, list |-> <<h>> \o data] :
              h \in HeaderRows, data \in DataRows }

\* the arguments of a call: query, location, demographic
Requests ==
    { [query |-> Arg(<<"c","a","r"," ","f","a","n">>),
       location |-> Undefined, demographic |-> Undefined],
      [query |-> Arg(<<"c","a","r"," ","f","a","n">>),
       location |-> Arg(<<"n","y">>), demographic |-> Arg(<<"o","l","d">>)],
      [query |-> Arg(<<"C","a","r">>),
       location |-> Arg(<<"n","y">>), demographic |-> Undefined],
      [query |-> Arg(<<"x","y">>),
       location |-> Undefined, demographic |-> Arg(<<"o","l","d">>)],
      [query |-> Arg(<<"z","z","z">>),
       location |-> Undefined, demographic |-> Undefined],
      [query |-> Undefined,
       location |-> Undefined, demographic |-> Undefined] }

\* rows for the cases of the text matching: the example row of the
\* documentation, a row whose every cell is the word car in another letter
\* case, and two rows of the pool
CaseRows ==
    { << <<"A","u","t","o">>,
         <<"V","e","h","i","c","l","e"," ","O","w","n","e","r","s">>,
         <<"A","g","e"," ","2","5","-","3","4">>,
         <<"C","a","r"," ","e","n","t","h","u","s","i","a","s","t","s"," ",
           "i","n","t","e","r","e","s","t","e","d"," ","i","n"," ",
           "p","e","r","f","o","r","m","a","n","c","e"," ",
           "v","e","h","i","c","l","e","s">> >>,
      << <<"C","a","r">>, <<"C","A","R">>, <<"c","a","r">>, <<"c","A","r">> >>,
      << <<"A","u","t","o">>, <<"C","a","r","s">>, <<"O","l","d">>,
         <<"c","a","r"," ","f","a","n"," ","n","y">> >>,
      << <<"F","o","o","d">>, <<"X","y">>, <<>>, <<"C","A","R">> >> }

\* largest number of data rows of a sheet in the cases
CaseMaxRows == 2

\* header rows of the cases: those of HeaderRows and one with a number in
\* the place of a header
CaseHeaderRows ==
    HeaderRows \cup { <<Category, NotAString, Demographic, Description>> }

CaseResponses ==
    { [resolved |-> TRUE, set |-> FALSE, list |-> <<>>],
      [resolved |-> TRUE, set |-> TRUE, list |-> <<>>] }
    \cup { [resolved |-> TRUE, set |-> TRUE, list |-> <<h>> \o data] :
              h \in CaseHeaderRows,
              data \in UNION {[1..n -> CaseRows] : n \in 0..CaseMaxRows} }

CaseRequests ==
    { [query |-> Arg(<<"c","a","r"," ","e","n","t","h","u","s","i","a","s","t","s">>),
       location |-> Undefined, demographic |-> Undefined],
      [query |-> Arg(<<"C","a","r">>),
       location |-> Arg(<<"C","A","R">>), demographic |-> Arg(<<"c","a","r">>)],
      [query |-> Arg(<<"x","y">>),
       location |-> Arg(<<"n","y">>), demographic |-> Arg(<<"o","l","d">>)],
      [query |-> Undefined,
       location |-> Undefined, demographic |-> Undefined] }

\* largest number of data rows of a sheet in the calls with extra spaces
SpaceMaxRows == 2

SpaceResponses ==
    { [resolved |-> TRUE, set |-> FALSE, list |-> <<>>],
      [resolved |-> TRUE, set |-> TRUE, list |-> <<>>] }
    \cup { [resolved |-> TRUE, set |-> TRUE, list |-> <<h>> \o data] :
              h \in HeaderRows,
              data \in UNION {[1..n -> RowPool] : n \in 0..SpaceMaxRows} }

\* calls whose location or demographic has a trailing, a leading or a
\* doubled space, and the same calls without the extra spaces
SpaceRequests ==
    { [query |-> Arg(<<"z","z","z">>),
       location |-> Arg(<<"n","y">>), demographic |-> Undefined],
      [query |-> Arg(<<"z","z","z">>),
       location |-> Arg(<<"n","y"," ">>), demographic |-> Undefined],
      [query |-> Arg(<<"c","a","r"," ","f","a","n">>),
       location |-> Arg(<<"n","y">>), demographic |-> Arg(<<"o","l","d">>)],
      [query |-> Arg(<<"c","a","r"," ","f","a","n">>),
       location |-> Arg(<<"n","y">>), demographic |-> Arg(<<" ","o","l","d">>)],
      [query |-> Arg(<<"x","y">>),
       location |-> Undefined,
       demographic |-> Arg(<<"o","l","d"," "," ","y","o","u","n","g">>)] }

\* largest number of data rows of a sheet fetched by concurrent calls
ConcMaxRows == 1

ConcResponses ==
    { [resolved |-> TRUE, set |-> FALSE, list |-> <<>>],
      [resolved |-> TRUE, set |-> TRUE, list |-> <<>>] }
    \cup { [resolved |-> TRUE, set |-> TRUE, list |-> <<h>> \o data] :
              h \in HeaderRows,
              data \in UNION {[1..n -> RowPool] : n \in 0..ConcMaxRows} }

\* no response of the sheets API has arrived
NoResponse == [resolved |-> FALSE, set |-> FALSE, list |-> <<>>]

FetchErrors == { "Request failed with status code 403", "socket hang up" }

(***************************************************************************)
(* POST /agent (src/index.js)                                              *)
(***************************************************************************)
\* the request slots of the route
HttpRequests == {1, 2}

\* req.body.input: absent, the empty string, the number 0, a number, strings
Bodies ==
    { [kind |-> "undefined", text |-> <<>>],
      [kind |-> "string", text |-> <<>>],
      [kind |-> "number", text |-> <<"0">>],
      [kind |-> "number", text |-> <<"5">>],
      [kind |-> "string", text |-> <<"c","a","r"," ","f","a","n">>],
      [kind |-> "string", text |-> <<"x","y">>] }

\* no request is being handled in the slot
NoBody == [kind |-> "undefined", text |-> <<>>]

\* what agent.run resolves to
AgentOutputs == { "Auto -> Cars -> Old", "No pathway found" }

\* !input
Falsy(input) ==
    \/ input.kind = "undefined"
    \/ input.kind = "string" /\ input.text = <<>>
    \/ input.kind = "number" /\ input.text = <<"0">>

\* !input || typeof input !== 'string'
InvalidInput(input) == Falsy(input) \/ input.kind # "string"

HttpInit ==
    /\ httpPc = [r \in HttpRequests |-> "idle"]
    /\ httpInput = [r \in HttpRequests |-> NoBody]
    /\ runs = [r \in HttpRequests |-> <<>>]
    /\ replies = [r \in HttpRequests |-> <<>>]

\* the handler answering 400 without returning: agent.run is called too
PostInvalid_NoReturn(r, input) ==
    /\ httpPc[r] = "idle"
    /\ InvalidInput(input)
    /\ httpInput' = [httpInput EXCEPT ![r] = input]
    /\ replies' = [replies EXCEPT ![r] =
                      Append(@, [status |-> 400, key |-> "error",
                                 value |-> "Invalid input format"])]
    /\ runs' = [runs EXCEPT ![r] =
                   Append(@, [input |-> input.text, state |-> "pending",
                              output |-> ""])]
    /\ httpPc' = [httpPc EXCEPT ![r] = "running"]
    /\ UNCHANGED tool

\* the handler on an input that fails validation: 400 and return
PostInvalid(r, input) ==
    /\ httpPc[r] = "idle"
    /\ InvalidInput(input)
    /\ httpInput' = [httpInput EXCEPT ![r] = input]
    /\ replies' = [replies EXCEPT ![r] =
                      Append(@, [status |-> 400, key |-> "error",
                                 value |-> "Invalid input format"])]
    /\ httpPc' = [httpPc EXCEPT ![r] = "responded"]
    /\ UNCHANGED <<runs, tool>>

\* the handler on a valid input, up to the await of agent.run(input)
PostValid(r, input) ==
    /\ httpPc[r] = "idle"
    /\ ~InvalidInput(input)
    /\ httpInput' = [httpInput EXCEPT ![r] = input]
    /\ runs' = [runs EXCEPT ![r] =
                   Append(@, [input |-> input.text, state |-> "pending",
                              output |-> ""])]
    /\ httpPc' = [httpPc EXCEPT ![r] = "running"]
    /\ UNCHANGED <<replies, tool>>

\* agent.run resolves: res.json({ output: result })
RunResolve(r, out) ==
    /\ httpPc[r] = "running"
    /\ runs' = [runs EXCEPT ![r][Len(runs[r])] =
                   [@ EXCEPT !.state = "resolved", !.output = out]]
    /\ replies' = [replies EXCEPT ![r] =
                      Append(@, [status |-> 200, key |-> "output", value |-> out])]
    /\ httpPc' = [httpPc EXCEPT ![r] = "responded"]
    /\ UNCHANGED <<httpInput, tool>>

\* agent.run rejects: the catch block answers 500
RunReject(r) ==
    /\ httpPc[r] = "running"
    /\ runs' = [runs EXCEPT ![r][Len(runs[r])] = [@ EXCEPT !.state = "rejected"]]
    /\ replies' = [replies EXCEPT ![r] =
                      Append(@, [status |-> 500, key |-> "error",
                                 value |-> "Failed to process the request"])]
    /\ httpPc' = [httpPc EXCEPT ![r] = "responded"]
    /\ UNCHANGED <<httpInput, tool>>

NextHttp ==
    \/ \E r \in HttpRequests, input \in Bodies : PostInvalid(r, input)
    \/ \E r \in HttpRequests, input \in Bodies : PostValid(r, input)
    \/ \E r \in HttpRequests, out \in AgentOutputs : RunResolve(r, out)
    \/ \E r \in HttpRequests : RunReject(r)

(***************************************************************************)
(* The calls of execute                                                    *)
(***************************************************************************)
InitWith(cs) ==
    /\ sheetIdSet \in BOOLEAN
    /\ callers = cs
    /\ pc = [c \in AllCalls |-> "idle"]
    /\ query = [c \in AllCalls |-> Undefined]
    /\ location = [c \in AllCalls |-> Undefined]
    /\ demographic = [c \in AllCalls |-> Undefined]
    /\ rows = [c \in AllCalls |-> NoResponse]
    /\ searched = [c \in AllCalls |-> {}]
    /\ scoredResults = [c \in AllCalls |-> <<>>]
    /\ result = [c \in AllCalls |-> NoResult]
    /\ fetches = [c \in AllCalls |-> 0]
    /\ caught = [c \in AllCalls |-> NoError]
    /\ HttpInit

\* one call of the tool at a time
Init == InitWith({1})

\* the calls of the tool overlap
InitConc == InitWith(AllCalls)

\* execute({query, location, demographic}) up to the await of the fetch,
\* GOOGLE_SHEET_ID set
ExecuteFetch(c, req) ==
    /\ c \in callers
    /\ pc[c] = "idle"
    /\ sheetIdSet
    /\ query' = [query EXCEPT ![c] = req.query]
    /\ location' = [location EXCEPT ![c] = req.location]
    /\ demographic' = [demographic EXCEPT ![c] = req.demographic]
    /\ fetches' = [fetches EXCEPT ![c] = @ + 1]
    /\ pc' = [pc EXCEPT ![c] = "fetching"]
    /\ UNCHANGED <<sheetIdSet, callers, rows, searched, scoredResults, result,
                   caught, http>>

\* the fetch issued before GOOGLE_SHEET_ID is checked
ExecuteNoSheetId_FetchFirst(c, req) ==
    /\ c \in callers
    /\ pc[c] = "idle"
    /\ ~sheetIdSet
    /\ query' = [query EXCEPT ![c] = req.query]
    /\ location' = [location EXCEPT ![c] = req.location]
    /\ demographic' = [demographic EXCEPT ![c] = req.demographic]
    /\ fetches' = [fetches EXCEPT ![c] = @ + 1]
    /\ caught' = [caught EXCEPT ![c] = SheetIdError]
    /\ result' = [result EXCEPT ![c] = ErrorResult(SheetIdError)]
    /\ pc' = [pc EXCEPT ![c] = "done"]
    /\ UNCHANGED <<sheetIdSet, callers, rows, searched, scoredResults, http>>

\* execute with GOOGLE_SHEET_ID unset: the throw is caught
ExecuteNoSheetId(c, req) ==
    /\ c \in callers
    /\ pc[c] = "idle"
    /\ ~sheetIdSet
    /\ query' = [query EXCEPT ![c] = req.query]
    /\ location' = [location EXCEPT ![c] = req.location]
    /\ demographic' = [demographic EXCEPT ![c] = req.demographic]
    /\ caught' = [caught EXCEPT ![c] = SheetIdError]
    /\ result' = [result EXCEPT ![c] = ErrorResult(SheetIdError)]
    /\ pc' = [pc EXCEPT ![c] = "done"]
    /\ UNCHANGED <<sheetIdSet, callers, rows, searched, scoredResults, fetches,
                   http>>

\* execute reading the query from a variable shared by the calls, which
\* holds the query of another call in progress
FetchResolve_SharedQuery(c, resp) ==
    /\ pc[c] = "fetching"
    /\ LET q == IF \E e \in callers \ {c} : pc[e] # "idle"
                THEN query[CHOOSE e \in callers \ {c} : pc[e] # "idle"]
                ELSE query[c]
           out == respond(resp, q, location[c], demographic[c])
       IN  /\ result' = [result EXCEPT ![c] = out.result]
           /\ scoredResults' = [scoredResults EXCEPT ![c] = out.scored]
           /\ searched' = [searched EXCEPT ![c] = out.read]
           /\ caught' = [caught EXCEPT ![c] = out.caught]
    /\ rows' = [rows EXCEPT ![c] = resp]
    /\ pc' = [pc EXCEPT ![c] = "done"]
    /\ UNCHANGED <<sheetIdSet, callers, query, location, demographic, fetches,
                   http>>

\* sheets.spreadsheets.values.get resolves and execute runs to its return
FetchResolve(c, resp) ==
    /\ pc[c] = "fetching"
    /\ LET out == respond(resp, query[c], location[c], demographic[c])
       IN  /\ result' = [result EXCEPT ![c] = out.result]
           /\ scoredResults' = [scoredResults EXCEPT ![c] = out.scored]
           /\ searched' = [searched EXCEPT ![c] = out.read]
           /\ caught' = [caught EXCEPT ![c] = out.caught]
    /\ rows' = [rows EXCEPT ![c] = resp]
    /\ pc' = [pc EXCEPT ![c] = "done"]
    /\ UNCHANGED <<sheetIdSet, callers, query, location, demographic, fetches,
                   http>>

\* sheets.spreadsheets.values.get rejects: the catch block returns
FetchReject(c, msg) ==
    /\ pc[c] = "fetching"
    /\ caught' = [caught EXCEPT ![c] = msg]
    /\ result' = [result EXCEPT ![c] = ErrorResult(msg)]
    /\ pc' = [pc EXCEPT ![c] = "done"]
    /\ UNCHANGED <<sheetIdSet, callers, query, location, demographic, rows,
                   searched, scoredResults, fetches, http>>

\* the caller has taken the result; the locals of the call are gone
Return(c) ==
    /\ pc[c] = "done"
    /\ pc' = [pc EXCEPT ![c] = "idle"]
    /\ query' = [query EXCEPT ![c] = Undefined]
    /\ location' = [location EXCEPT ![c] = Undefined]
    /\ demographic' = [demographic EXCEPT ![c] = Undefined]
    /\ rows' = [rows EXCEPT ![c] = NoResponse]
    /\ searched' = [searched EXCEPT ![c] = {}]
    /\ scoredResults' = [scoredResults EXCEPT ![c] = <<>>]
    /\ result' = [result EXCEPT ![c] = NoResult]
    /\ fetches' = [fetches EXCEPT ![c] = 0]
    /\ caught' = [caught EXCEPT ![c] = NoError]
    /\ UNCHANGED <<sheetIdSet, callers, http>>

Next ==
    \/ \E c \in AllCalls, req \in Requests : ExecuteFetch(c, req)
    \/ \E c \in AllCalls, req \in Requests : ExecuteNoSheetId(c, req)
    \/ \E c \in AllCalls, resp \in Responses : FetchResolve(c, resp)
    \/ \E c \in AllCalls, msg \in FetchErrors : FetchReject(c, msg)
    \/ \E c \in AllCalls : Return(c)

Spec == Init /\ [][Next]_vars

\* the calls of the tool on the cases of the text matching
NextCases ==
    \/ \E c \in AllCalls, req \in CaseRequests : ExecuteFetch(c, req)
    \/ \E c \in AllCalls, req \in CaseRequests : ExecuteNoSheetId(c, req)
    \/ \E c \in AllCalls, resp \in CaseResponses : FetchResolve(c, resp)
    \/ \E c \in AllCalls, msg \in FetchErrors : FetchReject(c, msg)
    \/ \E c \in AllCalls : Return(c)

SpecCases == Init /\ [][NextCases]_vars

\* overlapping calls of the tool on small sheets
NextConc ==
    \/ \E c \in AllCalls, req \in Requests : ExecuteFetch(c, req)
    \/ \E c \in AllCalls, req \in Requests : ExecuteNoSheetId(c, req)
    \/ \E c \in AllCalls, resp \in ConcResponses : FetchResolve(c, resp)
    \/ \E c \in AllCalls, msg \in FetchErrors : FetchReject(c, msg)
    \/ \E c \in AllCalls : Return(c)

SpecConc == InitConc /\ [][NextConc]_vars

\* the calls of the tool with extra spaces in location and demographic
NextSpaces ==
    \/ \E c \in AllCalls, req \in SpaceRequests : ExecuteFetch(c, req)
    \/ \E c \in AllCalls, req \in SpaceRequests : ExecuteNoSheetId(c, req)
    \/ \E c \in AllCalls, resp \in SpaceResponses : FetchResolve(c, resp)
    \/ \E c \in AllCalls, msg \in FetchErrors : FetchReject(c, msg)
    \/ \E c \in AllCalls : Return(c)

SpecSpaces == Init /\ [][NextSpaces]_vars

\* the route alone, no call of the tool in progress
SpecHttp == Init /\ [][NextHttp]_vars

(***************************************************************************)
(* Properties                                                              *)
(***************************************************************************)
\* the call has returned
Done(c) == pc[c] = "done"

\* the call has returned after scoring the data rows of a fetched sheet
Scored(c) ==
    /\ Done(c)
    /\ rows[c].resolved /\ rows[c].set /\ Len(rows[c].list) >= 1
    /\ query[c].set

\* the call has returned ranked results
Matched(c) == Done(c) /\ "rawData" \in DOMAIN result[c]

\* the column of the header row resolved for a role: the first header whose
\* lower-cased text contains the role name; 0 when there is none
RoleColumn(headers, role) ==
    IF \E i \in 1..Len(headers) : Includes(ToLowerCase(headers[i]), ToLowerCase(role))
    THEN CHOOSE i \in 1..Len(headers) :
            /\ Includes(ToLowerCase(headers[i]), ToLowerCase(role))
            /\ \A j \in 1..(i - 1) :
                  ~Includes(ToLowerCase(headers[j]), ToLowerCase(role))
    ELSE 0

\* r comes before s in the ranking: higher score, or equal score and
\* earlier row of the sheet
RankedBefore(r, s) ==
    \/ r.score > s.score
    \/ r.score = s.score /\ r.rowIndex < s.rowIndex

\* C1: all candidates of a call draw their matches from one column, and
\* when that column is Description no cell of another column is read.
C1_SingleColumnShortCircuit ==
    \A c \in AllCalls :
        Scored(c) /\ Len(scoredResults[c]) > 0 =>
            LET headers == rows[c].list[1]
            IN  \E col \in 1..Len(headers) :
                   /\ \A k \in 1..Len(scoredResults[c]) :
                         \A m \in 1..Len(scoredResults[c][k].matchDetails) :
                            scoredResults[c][k].matchDetails[m].header = headers[col]
                   /\ col = RoleColumn(headers, Description) =>
                         \A cell \in searched[c] : cell[2] = col

\* C2: a call returns at most 3 ranked results.
C2_AtMostThreeResults ==
    \A c \in AllCalls :
        Matched(c) => Len(result[c].rawData) <= 3 /\ Len(result[c].results) <= 3

\* C3: the returned results are in descending score order, results of
\* equal score in the row order of the sheet, and they are a prefix of the
\* same ordering of all candidates.
C3_StableDescendingPrefix ==
    \A c \in AllCalls :
        Matched(c) =>
            LET top == result[c].rawData
                all == scoredResults[c]
            IN  /\ \A i, j \in 1..Len(all) : i < j => RankedBefore(all[i], all[j])
                /\ Len(top) <= Len(all)
                /\ \A i \in 1..Len(top) : top[i] = all[i]

\* a call returned results with a tie, with a row moved ahead of an earlier
\* row, and with candidates cut off
C3_Witness ==
    \E c \in AllCalls :
        /\ Matched(c)
        /\ Len(scoredResults[c]) > Len(result[c].rawData)
        /\ \E i, j \in 1..Len(result[c].rawData) :
              /\ i < j
              /\ result[c].rawData[i].score = result[c].rawData[j].score
        /\ \E i, j \in 1..Len(result[c].rawData) :
              /\ i < j
              /\ result[c].rawData[i].rowIndex > result[c].rawData[j].rowIndex

\* C4: a row whose Description cell contains the whole query is a candidate
\* of score exactly 100.
C4_ExactPhraseScores100 ==
    \A c \in AllCalls :
        Scored(c) =>
            LET headers == rows[c].list[1]
                col == RoleColumn(headers, Description)
            IN  \A i \in 2..Len(rows[c].list) :
                   col > 0 /\ Includes(cellValue(rows[c].list[i], col),
                                       ToLowerCase(query[c].text)) =>
                      \E k \in 1..Len(scoredResults[c]) :
                         /\ scoredResults[c][k].rowIndex = i
                         /\ scoredResults[c][k].score = 100

\* C5: a row whose Description cell lacks the whole query but contains m of
\* the n query words longer than 2 characters has score (m / n) * 80.
C5_WordOverlapScore ==
    \A c \in AllCalls :
        Scored(c) =>
            LET headers == rows[c].list[1]
                col == RoleColumn(headers, Description)
                words == searchTerms(query[c].text)
            IN  \A i \in 2..Len(rows[c].list) :
                   LET cell == cellValue(rows[c].list[i], col)
                       m == Len(Found(cell, words))
                   IN  /\ col > 0
                       /\ ~Includes(cell, ToLowerCase(query[c].text))
                       /\ m >= 1
                       /\ m * 80 >= 30 * Len(words)
                       => \E k \in 1..Len(scoredResults[c]) :
                             /\ scoredResults[c][k].rowIndex = i
                             /\ scoredResults[c][k].score * Len(words) = m * 80

\* C6: every candidate, and so every returned row, has score at least 30.
C6_ThresholdThirty ==
    \A c \in AllCalls :
        Done(c) =>
            /\ \A k \in 1..Len(scoredResults[c]) : scoredResults[c][k].score >= 30
            /\ Matched(c) =>
                  \A k \in 1..Len(result[c].rawData) : result[c].rawData[k].score >= 30

\* C7: when a required header is missing the call fails, reads no cell and
\* returns neither matches nor the no-match outcome.
C7_MissingHeaderFails ==
    \A c \in AllCalls :
        /\ Scored(c)
        /\ \E role \in {Category, Grouping, Demographic, Description} :
              RoleColumn(rows[c].list[1], role) = 0
        => /\ result[c].success = FALSE
           /\ searched[c] = {}
           /\ ~Matched(c)

\* C8: a sheet without data rows, a header row alone included, gives the
\* "no data" outcome, which differs from the "no matches" outcome.
C8_NoDataDistinct ==
    \A c \in AllCalls :
        /\ Done(c)
        /\ rows[c].resolved
        /\ query[c].set
        /\ Len(rows[c].list) <= 1
        => /\ result[c] = NoDataResult
           /\ result[c] # NoMatchResult(query[c].text)

\* C9: a result carries the confidence label of its top score: High from
\* 80, Medium from 60, Low below.
C9_ConfidenceLabel ==
    \A c \in AllCalls :
        Matched(c) =>
            /\ "confidence" \in DOMAIN result[c]
            /\ result[c].confidence =
                  (IF result[c].rawData[1].score >= 80 THEN "High"
                   ELSE IF result[c].rawData[1].score >= 60 THEN "Medium"
                   ELSE "Low")

\* C10: when the sheet has data rows and no row scores, the call succeeds
\* with suggestions and without ranked results, every column of every row
\* having been read.
C10_NoMatchOutcome ==
    \A c \in AllCalls :
        /\ Scored(c)
        /\ Len(rows[c].list) >= 2
        /\ \A i \in 2..Len(rows[c].list) :
              rowScore(rows[c].list[1], rows[c].list[i],
                       searchTerms(query[c].text), locationTerms(location[c]),
                       demographicTerms(demographic[c]),
                       ToLowerCase(query[c].text)) = 0
        => /\ result[c].success = TRUE
           /\ "suggestions" \in DOMAIN result[c]
           /\ Len(result[c].suggestions) > 0
           /\ ~Matched(c)
           /\ "results" \notin DOMAIN result[c]
           /\ searched[c] =
                 {<<i, col>> : i \in 2..Len(rows[c].list),
                               col \in 1..Len(rows[c].list[1])}

\* a call over a sheet with data rows returned the no-match outcome
C10_Witness ==
    \E c \in AllCalls :
        /\ Scored(c)
        /\ Len(rows[c].list) >= 3
        /\ Len(scoredResults[c]) = 0
        /\ result[c].success = TRUE
        /\ "suggestions" \in DOMAIN result[c]

\* C11: when the fetch fails, the call has issued exactly one fetch and
\* returns a failure whose message carries that of the fetch error, without
\* ranked results.
C11_FetchFailureReported ==
    \A c \in AllCalls :
        Done(c) /\ caught[c] \in FetchErrors =>
            /\ fetches[c] = 1
            /\ ~rows[c].resolved
            /\ result[c].success = FALSE
            /\ result[c].message.arg = <<caught[c]>>
            /\ ~Matched(c)
            /\ scoredResults[c] = <<>>

\* a call has returned after its fetch failed
C11_Witness ==
    \E c \in AllCalls :
        /\ Done(c)
        /\ caught[c] = "socket hang up"
        /\ fetches[c] = 1

\* C12: under any interleaving of the calls, a step leaves the arguments,
\* the fetched rows and the result of every call other than its own as they
\* were, and each returned result is the one execute computes from that
\* call's own arguments and fetched rows.
C12_CallsIndependent ==
    /\ [](\A c \in AllCalls :
             Done(c) /\ rows[c].resolved =>
                /\ result[c] = respond(rows[c], query[c], location[c],
                                       demographic[c]).result
                /\ scoredResults[c] = respond(rows[c], query[c], location[c],
                                              demographic[c]).scored)
    /\ [][\A c \in AllCalls :
             pc'[c] = pc[c] =>
                /\ query'[c] = query[c]
                /\ location'[c] = location[c]
                /\ demographic'[c] = demographic[c]
                /\ rows'[c] = rows[c]
                /\ scoredResults'[c] = scoredResults[c]
                /\ result'[c] = result[c]]_vars

\* two calls have returned over the same sheet, one with ranked results and
\* one without
C12_Witness ==
    /\ Matched(1)
    /\ Done(2) /\ rows[2].resolved /\ query[2].set /\ ~Matched(2)
    /\ rows[1] = rows[2]
    /\ Len(rows[1].list) = 2

\* C13: every score of a candidate lies between 0 and 100.
C13_ScoreInRange ==
    \A c \in AllCalls :
        \A k \in 1..Len(scoredResults[c]) :
            scoredResults[c][k].score \in 0..100

\* C14: each returned result is rendered from the Category, Grouping and
\* Demographic cells of its row, in that order, and from nothing else.
C14_PathwayRendering ==
    \A c \in AllCalls :
        Matched(c) =>
            LET headers == rows[c].list[1]
            IN  \A i \in 1..Len(result[c].results) :
                   LET row == rows[c].list[result[c].rawData[i].rowIndex]
                       shown == [k \in 1..Len(result[c].results[i].fields) |->
                                    result[c].results[i].fields[k].value]
                   IN  /\ RoleColumn(headers, Category) > 0
                       /\ RoleColumn(headers, Grouping) > 0
                       /\ RoleColumn(headers, Demographic) > 0
                       => shown = << Cell(row, RoleColumn(headers, Category)),
                                     Cell(row, RoleColumn(headers, Grouping)),
                                     Cell(row, RoleColumn(headers, Demographic)) >>

\* String.prototype.toUpperCase
ToUpperCase(s) ==
    [i \in 1..Len(s) |->
        IF \E k \in 1..26 : LowerChars[k] = s[i]
        THEN UpperChars[CHOOSE k \in 1..26 : LowerChars[k] = s[i]]
        ELSE s[i]]

\* the rows and scores of a ranking
Ranking(scored) ==
    [k \in 1..Len(scored) |->
        [rowIndex |-> scored[k].rowIndex, score |-> scored[k].score]]

\* the ranking execute computes when every letter of the query, of the
\* location and demographic arguments and of the sheet goes through the
\* conversion conv
RankingUnder(conv(_), c) ==
    Ranking(sortByScore(scoredRows(
        [i \in 1..Len(rows[c].list) |->
            [j \in 1..Len(rows[c].list[i]) |-> conv(rows[c].list[i][j])]],
        conv(query[c].text),
        [set |-> location[c].set, text |-> conv(location[c].text)],
        [set |-> demographic[c].set, text |-> conv(demographic[c].text)])))

\* C15: the rows, scores and order of the candidates are those obtained
\* with every letter of the inputs in upper case, and with every letter in
\* lower case.
C15_CaseInsensitive ==
    \A c \in AllCalls :
        Scored(c) /\ caught[c] = NoError =>
            /\ Ranking(scoredResults[c]) = RankingUnder(ToUpperCase, c)
            /\ Ranking(scoredResults[c]) = RankingUnder(ToLowerCase, c)

\* a call with mixed-case arguments returned a row with mixed-case cells
C15_Witness ==
    \E c \in AllCalls :
        /\ Matched(c)
        /\ query[c].text # ToLowerCase(query[c].text)
        /\ location[c].text # ToLowerCase(location[c].text)
        /\ \E i \in 2..Len(rows[c].list) :
              /\ rows[c].list[i][4] # ToLowerCase(rows[c].list[i][4])
              /\ rows[c].list[i][4] # ToUpperCase(rows[c].list[i][4])
              /\ \E k \in 1..Len(result[c].rawData) :
                    result[c].rawData[k].rowIndex = i

C17_NoFetchWithoutSheetId ==
    ~sheetIdSet =>
        \A c \in AllCalls :
            /\ fetches[c] = 0
            /\ pc[c] # "fetching"
            /\ Done(c) =>
                  /\ result[c].success = FALSE
                  /\ result[c].message.arg =
                        <<"GOOGLE_SHEET_ID environment variable not set">>

\* a call has returned with GOOGLE_SHEET_ID unset
C17_Witness ==
    \E c \in AllCalls : ~sheetIdSet /\ Done(c) /\ query[c].set

\* C18: a request whose input is missing, empty or no string is answered
\* 400 without a run of the agent; any other request runs the agent exactly
\* once and is answered once, 200 with the output of the run or 500 with
\* the generic error when the run threw.
C18_RunOnlyAfterValidation ==
    \A r \in HttpRequests :
        LET valid == httpInput[r].kind = "string" /\ httpInput[r].text # <<>>
        IN  /\ httpPc[r] = "idle" => runs[r] = <<>> /\ replies[r] = <<>>
            /\ httpPc[r] # "idle" /\ ~valid =>
                  /\ runs[r] = <<>>
                  /\ Len(replies[r]) = 1
                  /\ replies[r][1].status = 400
            /\ httpPc[r] # "idle" /\ valid =>
                  /\ Len(runs[r]) = 1
                  /\ runs[r][1].input = httpInput[r].text
                  /\ httpPc[r] = "running" =>
                        runs[r][1].state = "pending" /\ replies[r] = <<>>
                  /\ httpPc[r] = "responded" =>
                        /\ Len(replies[r]) = 1
                        /\ \/ /\ runs[r][1].state = "resolved"
                              /\ replies[r][1] =
                                    [status |-> 200, key |-> "output",
                                     value |-> runs[r][1].output]
                           \/ /\ runs[r][1].state = "rejected"
                              /\ replies[r][1] =
                                    [status |-> 500, key |-> "error",
                                     value |-> "Failed to process the request"]

\* one request was answered 400 and another 200
C18_Witness ==
    \E r, t \in HttpRequests :
        /\ httpPc[r] = "responded" /\ httpInput[r].kind = "number"
        /\ replies[r][1].status = 400
        /\ httpPc[t] = "responded" /\ replies[t][1].status = 200

\* C19: no row without the whole query in a cell is ranked above a row
\* that has it.
C19_ExactPhraseRanksFirst ==
    \A c \in AllCalls :
        Matched(c) =>
            LET HasPhrase(k) ==
                    LET row == rows[c].list[scoredResults[c][k].rowIndex]
                    IN  \E col \in 1..Len(rows[c].list[1]) :
                           Includes(ToLowerCase(Cell(row, col)),
                                    ToLowerCase(query[c].text))
            IN  \A i, j \in 1..Len(scoredResults[c]) :
                   i < j /\ HasPhrase(j) => HasPhrase(i)

\* C20: every returned row has a textual match: the whole query, a query
\* word, or a location or demographic term found in one of its cells.
C20_OnlyTextualMatches ==
    \A c \in AllCalls :
        Matched(c) =>
            \A k \in 1..Len(result[c].rawData) :
                Len(result[c].rawData[k].matchDetails) > 0

\* the pieces of a sequence joined by single spaces
RECURSIVE JoinTo(_, _)
JoinTo(pieces, n) ==
    IF n = 0 THEN <<>>
    ELSE IF n = 1 THEN pieces[1]
    ELSE JoinTo(pieces, n - 1) \o <<" ">> \o pieces[n]

\* an argument without its leading, trailing and doubled spaces
Squeeze(a) ==
    IF ~a.set THEN a
    ELSE LET words == SelectSeq(Split(a.text), LAMBDA w : w # <<>>)
         IN  Arg(JoinTo(words, Len(words)))

\* the row numbers and scores of a scoredResults array
Scores(scored) ==
    [k \in 1..Len(scored) |->
        [rowIndex |-> scored[k].rowIndex, score |-> scored[k].score]]

\* C21: only non-empty terms contribute to the score of a row: the rows
\* kept and their scores are those of the same call without the extra
\* spaces in location and demographic, and no match is recorded for an
\* empty term or in an empty cell.
C21_OnlyNonEmptyTermsScore ==
    \A c \in AllCalls :
        Scored(c) =>
            /\ Scores(scoredResults[c]) =
                  Scores(scoredRows(rows[c].list, query[c].text,
                                    Squeeze(location[c]),
                                    Squeeze(demographic[c])))
            /\ \A k \in 1..Len(scoredResults[c]) :
                  LET r == scoredResults[c][k]
                  IN  \A m \in 1..Len(r.matchDetails) :
                         /\ r.matchDetails[m].term # <<>>
                         /\ \A e \in 1..Len(r.data) :
                               r.data[e].key = r.matchDetails[m].header
                                  => r.data[e].value # <<>>

====
